---- MODULE Spec2Model ----
(***************************************************************************)
(* Model of the network-construction and spatial-filtering pipeline of the *)
(* Aston transport backend:                                                *)
(*   backend/gtfs/build_network.py  haversine_km, build_aston_network      *)
(*   backend/gtfs/parse.py          read_gtfs_table, load_gtfs             *)
(*   backend/gtfs/fetch.py          extract_gtfs_zip                       *)
(*   backend/server.py              filter_network_by_bbox, get_network,   *)
(*                                  refresh_gtfs                           *)
(*                                                                         *)
(* Coordinates are integers in thousandths of a degree (52492 is 52.492).  *)
(* Optional values (Python None / pandas NaN) are sequences: <<>> is None  *)
(* and <<v>> is the value v.  Python dicts that the code copies or writes  *)
(* (the network, its meta, its routes) live in a heap of objects, so that  *)
(* aliasing between a call's input and its output is visible.              *)
(***************************************************************************)
EXTENDS Integers, Sequences, FiniteSets, TLC

VARIABLES feed, heap, call, ret, load, extract

vars == <<feed, heap, call, ret, load, extract>>

\* ------------------------------------------------------------------------
\* Small helpers on sequences
\* ------------------------------------------------------------------------

Range(s) == {s[i] : i \in 1..Len(s)}

Abs(x) == IF x < 0 THEN -x ELSE x

None == <<>>

Some(v) == <<v>>

\* ------------------------------------------------------------------------
\* Real arithmetic of haversine_km.  The code calculates in IEEE doubles;
\* here a non-negative real x is the integer floor(x * 10^20), written as
\* the sequence of its digits in base 10^4, least significant first and
\* without leading zeros (0 is <<>>, 1 is <<0, 0, 0, 0, 0, 1>>, 0.9 is
\* <<0, 0, 0, 0, 9000>>).  Every operation rounds down in the last digit.
\* ------------------------------------------------------------------------

Base == 10000

\* digits of base 10^4 after the point
Scale == 5

Limb(a, i) == IF i <= Len(a) THEN a[i] ELSE 0

RECURSIVE Trim(_)
Trim(a) ==
    IF a # <<>> /\ a[Len(a)] = 0 THEN Trim(SubSeq(a, 1, Len(a) - 1)) ELSE a

\* the digits of an integer 0 <= n < 2^31
RECURSIVE Digits(_)
Digits(n) == IF n = 0 THEN <<>> ELSE <<n % Base>> \o Digits(n \div Base)

RECURSIVE AddFrom(_, _, _, _)
AddFrom(a, b, i, carry) ==
    IF i > Len(a) /\ i > Len(b) THEN Digits(carry)
    ELSE LET t == Limb(a, i) + Limb(b, i) + carry
         IN  <<t % Base>> \o AddFrom(a, b, i + 1, t \div Base)

\* a + b
Add(a, b) == AddFrom(a, b, 1, 0)

RECURSIVE SubFrom(_, _, _, _)
SubFrom(a, b, i, borrow) ==
    IF i > Len(a) THEN <<>>
    ELSE LET t == a[i] - Limb(b, i) - borrow
         IN  <<IF t < 0 THEN t + Base ELSE t>>
             \o SubFrom(a, b, i + 1, IF t < 0 THEN 1 ELSE 0)

\* a - b, for a >= b
Sub(a, b) == Trim(SubFrom(a, b, 1, 0))

RECURSIVE MulSmallFrom(_, _, _, _)
MulSmallFrom(a, d, i, carry) ==
    IF i > Len(a) THEN Digits(carry)
    ELSE LET t == a[i] * d + carry
         IN  <<t % Base>> \o MulSmallFrom(a, d, i + 1, t \div Base)

\* a * d for an integer 0 <= d < 200000
MulSmall(a, d) == IF d = 0 THEN <<>> ELSE MulSmallFrom(a, d, 1, 0)

\* a * Base^k
ShiftUp(a, k) == IF a = <<>> THEN <<>> ELSE [i \in 1..k |-> 0] \o a

\* floor(a / Base^k)
ShiftDown(a, k) == SubSeq(a, k + 1, Len(a))

RECURSIVE MulFrom(_, _, _)
MulFrom(a, b, j) ==
    IF j > Len(b) THEN <<>>
    ELSE Add(MulSmall(a, b[j]), ShiftUp(MulFrom(a, b, j + 1), 1))

\* the product of two integers
Mul(a, b) == MulFrom(a, b, 1)

RECURSIVE DivSmallFrom(_, _, _, _)
DivSmallFrom(a, d, i, rem) ==
    IF i = 0 THEN <<>>
    ELSE LET t == rem * Base + a[i]
         IN  DivSmallFrom(a, d, i - 1, t % d) \o <<t \div d>>

\* floor(a / d) for an integer 0 < d < 200000
DivSmall(a, d) == Trim(DivSmallFrom(a, d, Len(a), 0))

\* a <= b
Leq(a, b) ==
    IF Len(a) # Len(b) THEN Len(a) < Len(b)
    ELSE ~\E i \in 1..Len(a) :
             a[i] > b[i] /\ \A j \in (i + 1)..Len(a) : a[j] = b[j]

\* the product of two reals
FMul(a, b) == ShiftDown(Mul(a, b), Scale)

\* 1.0
One == ShiftUp(<<1>>, Scale)

\* math.pi = 3.14159265358979323846
PI == <<3846, 7932, 3589, 9265, 1415, 3>>

\* math.radians of |md| thousandths of a degree.  The code uses an angle
\* only through cos and through the square of sin, which are even.
radians(md) == DivSmall(Mul(PI, Digits(Abs(md))), 180000)

RECURSIVE SinFrom(_, _, _, _, _)
SinFrom(x2, t, k, pos, neg) ==
    IF t = <<>> THEN Sub(pos, neg)
    ELSE SinFrom(x2, DivSmall(FMul(t, x2), (2 * k + 2) * (2 * k + 3)), k + 1,
                 IF k % 2 = 0 THEN Add(pos, t) ELSE pos,
                 IF k % 2 = 0 THEN neg ELSE Add(neg, t))

\* math.sin(v) for 0 <= v <= pi: x - x^3/3! + x^5/5! - ... to the last digit
sin(v) == SinFrom(FMul(v, v), v, 0, <<>>, <<>>)

RECURSIVE CosFrom(_, _, _, _, _)
CosFrom(x2, t, k, pos, neg) ==
    IF t = <<>> THEN Sub(pos, neg)
    ELSE CosFrom(x2, DivSmall(FMul(t, x2), (2 * k + 1) * (2 * k + 2)), k + 1,
                 IF k % 2 = 0 THEN Add(pos, t) ELSE pos,
                 IF k % 2 = 0 THEN neg ELSE Add(neg, t))

\* math.cos(v) for 0 <= v <= pi/2: 1 - x^2/2! + x^4/4! - ...
cos(v) == CosFrom(FMul(v, v), One, 0, <<>>, <<>>)

\* the largest digit d in lo..hi with (r + d Base^(i-1))^2 <= n
RECURSIVE SqrtDigit(_, _, _, _, _)
SqrtDigit(n, r, i, lo, hi) ==
    IF lo >= hi THEN lo
    ELSE LET mid == (lo + hi + 1) \div 2
             c == Add(r, ShiftUp(<<mid>>, i - 1))
         IN  IF Leq(Mul(c, c), n) THEN SqrtDigit(n, r, i, mid, hi)
             ELSE SqrtDigit(n, r, i, lo, mid - 1)

RECURSIVE SqrtFrom(_, _, _)
SqrtFrom(n, r, i) ==
    IF i = 0 THEN r
    ELSE SqrtFrom(n, Add(r, ShiftUp(Digits(SqrtDigit(n, r, i, 0, Base - 1)),
                                    i - 1)), i - 1)

\* math.sqrt(s): the integer square root of s * 10^20, digit by digit
sqrt(s) == SqrtFrom(ShiftUp(s, Scale), <<>>, (Len(s) + Scale + 1) \div 2)

RECURSIVE AsinFrom(_, _, _, _)
AsinFrom(z2, t, k, acc) ==
    IF t = <<>> THEN acc
    ELSE AsinFrom(z2, DivSmall(MulSmall(FMul(t, z2), 2 * k + 1), 2 * k + 2),
                  k + 1, Add(acc, DivSmall(t, 2 * k + 1)))

\* z + z^3/6 + 3 z^5/40 + ... to the last digit, for z^2 <= 1/2
AsinSeries(z) == AsinFrom(FMul(z, z), z, 0, <<>>)

\* math.asin(z) for 0 <= z <= 1: the series when z^2 <= 1/2, else
\* pi/2 - asin(sqrt(1 - z^2))
asin(z) ==
    IF Leq(MulSmall(FMul(z, z), 2), One) THEN AsinSeries(z)
    ELSE Sub(DivSmall(PI, 2), AsinSeries(sqrt(Sub(One, FMul(z, z)))))

\* ------------------------------------------------------------------------
\* Geometry: build_network.py haversine_km
\* ------------------------------------------------------------------------

\* Aston centre of the builder, (lat, lng) = (52.492, -1.890)
ASTON_CENTER == <<52492, -1890>>

\* Earth radius in km
R == 6371

\* x ** 2
Square(x) == FMul(x, x)

\* s as asin(sqrt(s)) takes it: rounding down keeps it from passing 1
AtMostOne(x) == IF Leq(x, One) THEN x ELSE One

\* Great-circle distance in km between two (lat, lng) points given in
\* thousandths of a degree, as a real (lines 9-17).  It differs from the
\* double the code returns by less than 10^-9 km: 0.9035205763042...
\* against 0.9035205763057897 for (52.498, -1.881) and the centre.
haversine_km(a, b) ==
    LET dlat == radians(b[1] - a[1])
        dlon == radians(b[2] - a[2])
        s == Add(Square(sin(DivSmall(dlat, 2))),
                 FMul(FMul(cos(radians(a[1])), cos(radians(b[1]))),
                      Square(sin(DivSmall(dlon, 2)))))
    IN  MulSmall(asin(sqrt(AtMostOne(s))), 2 * R)

\* (lat, lng) of the stops and shape points of the inputs checked; from
\* the builder's centre they are 222.4 m, 650.9 m, 903.5 m and 119.3 km
\* away
Places == <<<<52490, -1890>>, <<52497, -1885>>,
            <<52498, -1881>>, <<53500, -2500>>>>

\* haversine_km(p, ASTON_CENTER) of those places, calculated once
DistKm == [p \in Range(Places) |-> haversine_km(p, ASTON_CENTER)]

\* lambda r: haversine_km((r["lat"], r["lng"]), ASTON_CENTER)
\* (lines 38 and 54)
DistFromCenter(lat, lng) ==
    IF <<lat, lng>> \in Range(Places) THEN DistKm[<<lat, lng>>]
    ELSE haversine_km(<<lat, lng>>, ASTON_CENTER)
\* ------------------------------------------------------------------------
\* Network builder: build_network.py build_aston_network
\*
\* A feed table is a sequence of rows in file order, a row a record of
\* its cells, as pandas.read_csv returns them.  Id columns hold strings
\* (astype(str) leaves them as they are), stop_lat / stop_lon /
\* shape_pt_lat / shape_pt_lon hold numbers, stop_sequence and
\* shape_pt_sequence hold integers.  A cell of stop_name, route_short_name,
\* route_long_name, route_color or trips.shape_id is <<text>>, or None for
\* NaN, which is what read_csv makes of an empty cell.  A table without
\* the optional column route_color has rows without that field.
\* ------------------------------------------------------------------------

\* str(v) of a cell: NaN spells "nan"
PyStr(v) == IF v = None THEN "nan" ELSE v[1]

\* row.get(key, ""): the cell, or "" when the table has no such column
Get(row, key) == IF key \in DOMAIN row THEN row[key] ELSE Some("")

\* stops with the columns lat, lng, dist_km added (lines 34-39)
StopsWithDist(stops) ==
    [i \in 1..Len(stops) |->
        [k \in DOMAIN stops[i] \cup {"lat", "lng", "dist_km"} |->
            IF k = "lat" THEN stops[i].stop_lat
            ELSE IF k = "lng" THEN stops[i].stop_lon
            ELSE IF k = "dist_km"
                 THEN DistFromCenter(stops[i].stop_lat, stops[i].stop_lon)
            ELSE stops[i][k]]]

\* stop_id_set: taken from the copy of ALL stops made before the region
\* test is applied (lines 41-42); it is not recomputed afterwards
StopIdSet(stops) == {stops[i].stop_id : i \in 1..Len(stops)}

\* buffer_km = buffer_meters / 1000.0 (lines 28 and 52), for
\* buffer_meters >= 0
BufferKm(buffer_meters) ==
    DivSmall(ShiftUp(Digits(buffer_meters), Scale), 1000)

\* dist_km <= buffer_km (line 56)
WithinBuffer(dist_km, buffer_meters) == Leq(dist_km, BufferKm(buffer_meters))

\* the region test with the edges of the bbox left out
RegionTestExclusive(row, buffer_meters, bbox) ==
    IF bbox # None
    THEN /\ row.lat > bbox[1][1] /\ row.lat < bbox[1][3]
         /\ row.lng > bbox[1][2] /\ row.lng < bbox[1][4]
    ELSE WithinBuffer(row.dist_km, buffer_meters)

\* the region test of one stop row (lines 45-56); bbox is
\* (minLat, minLng, maxLat, maxLng)
RegionTest(row, buffer_meters, bbox) ==
    IF bbox # None
    THEN /\ row.lat >= bbox[1][1] /\ row.lat <= bbox[1][3]
         /\ row.lng >= bbox[1][2] /\ row.lng <= bbox[1][4]
    ELSE WithinBuffer(row.dist_km, buffer_meters)

\* stops_near: the near-set, in table order (lines 45-56)
StopsNear(stops, buffer_meters, bbox) ==
    LET keep(row) == RegionTest(row, buffer_meters, bbox)
    IN  SelectSeq(StopsWithDist(stops), keep)

\* trip_ids: trips with a stop_times row whose stop_id is in stop_id_set
\* (lines 59-62)
TripIds(stops, stop_times) ==
    {stop_times[i].trip_id :
        i \in {j \in 1..Len(stop_times) :
                  stop_times[j].stop_id \in StopIdSet(stops)}}

\* trips2: the candidate trips, in the row order of trips (lines 64-66)
Trips2(stops, trips, stop_times) ==
    LET keep(t) == t.trip_id \in TripIds(stops, stop_times)
    IN  SelectSeq(trips, keep)

\* s.iloc[0] of the group of a route: the index in trips2 of the first row
\* of the route (line 73)
FirstOfRoute(trips2, rid) ==
    CHOOSE i \in 1..Len(trips2) :
        /\ trips2[i].route_id = rid
        /\ \A j \in 1..(i - 1) : trips2[j].route_id # rid

\* route_to_trip: route_id -> trip_id of the first row of its group
\* (lines 70-75)
RouteToTrip(trips2) ==
    [rid \in {trips2[i].route_id : i \in 1..Len(trips2)} |->
        trips2[FirstOfRoute(trips2, rid)].trip_id]

\* the order of the rows whose integer keys are keys[1], keys[2], ...,
\* ascending: the k-th entry is the index of the row that comes k-th.  Rows
\* with equal keys keep their order (the feeds of this model hold no equal
\* keys within a trip or a shape, where pandas leaves the order open)
SortOrder(keys) ==
    LET n == Len(keys)
        before(j, i) == \/ keys[j] < keys[i]
                        \/ keys[j] = keys[i] /\ j < i
        rank(i) == Cardinality({j \in 1..n : before(j, i)}) + 1
    IN  [k \in 1..n |-> CHOOSE i \in 1..n : rank(i) = k]

\* shape_points: shape_id -> its points ordered by shape_pt_sequence
\* (lines 78-86)
ShapePoints(shapes) ==
    [sid \in {shapes[i].shape_id : i \in 1..Len(shapes)} |->
        LET keep(r) == r.shape_id = sid
            g == SelectSeq(shapes, keep)
            order == SortOrder([i \in 1..Len(g) |-> g[i].shape_pt_sequence])
        IN  [k \in 1..Len(g) |->
                <<g[order[k]].shape_pt_lat, g[order[k]].shape_pt_lon>>]]

\* stop_ids of a trip in the row order of stop_times, the sort left out
TripStopIdsUnsorted(stop_times, trip_id) ==
    LET keep(r) == r.trip_id = trip_id
        st_trip == SelectSeq(stop_times, keep)
    IN  [k \in 1..Len(st_trip) |-> st_trip[k].stop_id]

\* stop_ids of a trip: all its stop_times rows, from the whole table,
\* ordered by stop_sequence (lines 101-104)
TripStopIds(stop_times, trip_id) ==
    LET keep(r) == r.trip_id = trip_id
        st_trip == SelectSeq(stop_times, keep)
        order == SortOrder([i \in 1..Len(st_trip) |->
                               st_trip[i].stop_sequence])
    IN  [k \in 1..Len(st_trip) |-> st_trip[order[k]].stop_id]

\* keep only routes that have some stop in stop_id_set (lines 106-108)
TouchesStopIdSet(stop_ids, stop_id_set) ==
    \E i \in 1..Len(stop_ids) : stop_ids[i] \in stop_id_set

\* the shape of the representative trip (lines 110-116)
TripShape(trips2, shapes, trip_id) ==
    LET trow == trips2[CHOOSE i \in 1..Len(trips2) :
                          /\ trips2[i].trip_id = trip_id
                          /\ \A j \in 1..(i - 1) :
                                trips2[j].trip_id # trip_id]
    IN  IF trow.shape_id # None
           /\ trow.shape_id[1] \in DOMAIN ShapePoints(shapes)
        THEN ShapePoints(shapes)[trow.shape_id[1]]
        ELSE <<>>

\* a coordinate as the Python value the network holds: <<"f", v>> is a
\* float, <<"s", v>> a string that spells a number, <<"x", 0>> any value
\* float() rejects
Float(v) == <<"f", v>>

\* one route object (lines 118-126)
RouteObject(r, stop_ids, shape) ==
    [id          |-> r.route_id,
     shortName   |-> PyStr(Get(r, "route_short_name")),
     longName    |-> PyStr(Get(r, "route_long_name")),
     color       |-> IF PyStr(Get(r, "route_color")) = "" THEN "2E7D32"
                     ELSE PyStr(Get(r, "route_color")),
     stopIds     |-> stop_ids,
     shape       |-> [i \in 1..Len(shape) |->
                         <<Float(shape[i][1]), Float(shape[i][2])>>],
     headwayMins |-> None]

\* out_routes (lines 92-126), over the rows of routes in table order
RECURSIVE OutRoutes(_, _, _, _, _, _)
OutRoutes(routes, stops, trips, stop_times, shapes, i) ==
    IF i > Len(routes) THEN <<>>
    ELSE
      LET r == routes[i]
          trips2 == Trips2(stops, trips, stop_times)
          route_to_trip == RouteToTrip(trips2)
          rest == OutRoutes(routes, stops, trips, stop_times, shapes, i + 1)
      IN  IF r.route_id \notin DOMAIN route_to_trip THEN rest
          ELSE
            LET trip_id == route_to_trip[r.route_id]
                stop_ids == TripStopIds(stop_times, trip_id)
            IN  IF ~TouchesStopIdSet(stop_ids, StopIdSet(stops)) THEN rest
                ELSE <<RouteObject(r, stop_ids,
                                   TripShape(trips2, shapes, trip_id))>>
                     \o rest

\* out_stops (lines 128-133)
OutStops(stops_near) ==
    [i \in 1..Len(stops_near) |->
        [id   |-> stops_near[i].stop_id,
         name |-> PyStr(Get(stops_near[i], "stop_name")),
         lat  |-> Float(stops_near[i].lat),
         lng  |-> Float(stops_near[i].lng)]]

\* the dict the builder returns (lines 135-144), as a value
Network(out_stops, out_routes, buffer_meters) ==
    [stops  |-> out_stops,
     routes |-> out_routes,
     meta   |-> [source         |-> "tfwm-gtfs",
                 bufferMeters   |-> buffer_meters,
                 stopsReturned  |-> Len(out_stops),
                 routesReturned |-> Len(out_routes)]]

\* build_aston_network (lines 19-144)
build_aston_network(stops, routes, trips, stop_times, shapes, buffer_meters, bbox) ==
    Network(OutStops(StopsNear(stops, buffer_meters, bbox)),
            OutRoutes(routes, stops, trips, stop_times, shapes, 1),
            buffer_meters)

\* ------------------------------------------------------------------------
\* Heap of dicts.  An address is <<kind, generation, index>>; generation 0
\* holds the network a caller passes in (or the builder's result), and a
\* call of the filter on generation g - 1 allocates in generation g.
\* ------------------------------------------------------------------------

NetAddr(g) == <<"net", g, 0>>

MetaAddr(g) == <<"meta", g, 0>>

RouteAddr(g, i) == <<"route", g, i>>

EmptyHeap == <<>>

Alloc(h, a, obj) == [x \in DOMAIN h \cup {a} |-> IF x = a THEN obj ELSE h[x]]

\* d[field] = v
Store(h, a, field, v) == [h EXCEPT ![a] = [@ EXCEPT ![field] = v]]

\* dict(src): a new dict with the entries of src; a shallow copy
DictCopy(h, src, fresh) == [heap |-> Alloc(h, fresh, h[src]), addr |-> fresh]

\* a network value laid out as fresh objects of generation g
StoreNet(h, g, net) ==
    LET n == Len(net.routes)
        new == {NetAddr(g), MetaAddr(g)} \cup {RouteAddr(g, i) : i \in 1..n}
    IN  [x \in DOMAIN h \cup new |->
            IF x = NetAddr(g)
            THEN [stops  |-> net.stops,
                  routes |-> [i \in 1..n |-> RouteAddr(g, i)],
                  meta   |-> MetaAddr(g)]
            ELSE IF x = MetaAddr(g) THEN net.meta
            ELSE IF x \in new THEN net.routes[x[3]]
            ELSE h[x]]

\* the network value an address denotes
Deref(h, a) ==
    [stops  |-> h[a].stops,
     routes |-> [i \in 1..Len(h[a].routes) |-> h[h[a].routes[i]]],
     meta   |-> h[h[a].meta]]

\* the objects a network is made of
Objects(h, a) == {a, h[a].meta} \cup Range(h[a].routes)

\* ------------------------------------------------------------------------
\* Network filter: server.py filter_network_by_bbox
\* ------------------------------------------------------------------------

\* (minLat <= lat <= maxLat) and (minLng <= lng <= maxLng)
\* (line 130 for a stop, 153 for a shape point)
InBBox(lat, lng, bbox) ==
    /\ bbox[1] <= lat /\ lat <= bbox[3]
    /\ bbox[2] <= lng /\ lng <= bbox[4]

\* the conversions without their handler: the exception leaves the call
TryCoordsUnguarded(a, b) ==
    IF a[1] = "x" \/ b[1] = "x"
    THEN [st |-> "raise", lat |-> 0, lng |-> 0]
    ELSE [st |-> "ok", lat |-> a[2], lng |-> b[2]]

\* try: lat = float(a); lng = float(b)  except Exception: continue
\* (lines 124-128 for a stop, 148-152 for a shape point)
TryCoords(a, b) ==
    IF a[1] = "x" \/ b[1] = "x"
    THEN [st |-> "continue", lat |-> 0, lng |-> 0]
    ELSE [st |-> "ok", lat |-> a[2], lng |-> b[2]]

\* a stop is appended to filtered_stops (lines 123-133)
StopKept(s, bbox) ==
    LET c == TryCoords(s.lat, s.lng)
    IN  c.st = "ok" /\ InBBox(c.lat, c.lng, bbox)

\* filtered_stops: the stop objects themselves, in order (lines 121-133)
FilteredStops(stops, bbox) ==
    LET kept(s) == StopKept(s, bbox)
    IN  SelectSeq(stops, kept)

\* keep_stop_ids (lines 120, 131-132)
KeepStopIds(stops, bbox) ==
    {s.id : s \in Range(FilteredStops(stops, bbox))}

\* in_area: the entries of stop_ids that are in keep_stop_ids (line 138)
InArea(stop_ids, keep_stop_ids) ==
    LET inKeep(sid) == sid \in keep_stop_ids
    IN  SelectSeq(stop_ids, inKeep)

\* the route is skipped also with exactly min_stops_in_area entries
RouteSurvivesOffByOne(stop_ids, keep_stop_ids, min_stops_in_area) ==
    ~(Len(InArea(stop_ids, keep_stop_ids)) <= min_stops_in_area)

\* the route is not skipped (lines 139-140)
RouteSurvives(stop_ids, keep_stop_ids, min_stops_in_area) ==
    ~(Len(InArea(stop_ids, keep_stop_ids)) < min_stops_in_area)

\* clipped: the in-box points of a shape as [float, float] (lines 146-154)
Clipped(shape, bbox) ==
    LET inBox(pt) == LET c == TryCoords(pt[1], pt[2])
                     IN  c.st = "ok" /\ InBBox(c.lat, c.lng, bbox)
        sel == SelectSeq(shape, inBox)
    IN  [i \in 1..Len(sel) |-> <<Float(sel[i][1][2]), Float(sel[i][2][2])>>]

\* any non-empty clipped polyline replaces the shape
UseClippedIfAny(clipped) == Len(clipped) >= 1

\* the clipped polyline replaces the shape (line 156)
UseClipped(clipped) == Len(clipped) >= 2

\* rr = dict(r)  (line 142)
CopyRoute(h, r, fresh) == DictCopy(h, r, fresh)

\* out = dict(net)  (line 161)
CopyNet(h, net, fresh) == DictCopy(h, net, fresh)

\* out["meta"] = out.get("meta", {}): the dict of the input itself
CopyMetaAliased(h, meta, fresh) == [heap |-> h, addr |-> meta]

\* out["meta"] = dict(out.get("meta", {}))  (line 164)
CopyMeta(h, meta, fresh) == DictCopy(h, meta, fresh)

\* the record stored under meta["filter"] (lines 166-171)
FilterRecord(bbox, min_stops_in_area, clip_shapes) ==
    [type           |-> "bbox",
     bbox           |-> [minLat |-> bbox[1], minLng |-> bbox[2],
                         maxLat |-> bbox[3], maxLng |-> bbox[4]],
     minStopsInArea |-> min_stops_in_area,
     clipShapes     |-> clip_shapes]

\* the filter records of earlier calls kept beside the new one
MetaUpdateAccumulating(meta, rec) ==
    [k \in DOMAIN meta \cup {"filter"} |->
        IF k = "filter"
        THEN IF "filter" \in DOMAIN meta
             THEN [rec EXCEPT !.type = "bbox+" \o meta.filter.type]
             ELSE rec
        ELSE meta[k]]

\* meta.update({"filter": rec})  (lines 165-172)
MetaUpdate(meta, rec) ==
    [k \in DOMAIN meta \cup {"filter"} |->
        IF k = "filter" THEN rec ELSE meta[k]]

\* the loop over routes (lines 135-159): the heap after it and
\* filtered_routes
RECURSIVE FilterRoutes(_, _, _, _, _, _, _, _)
FilterRoutes(h, routes, i, keep_stop_ids, bbox, min_stops_in_area, clip_shapes, g) ==
    IF i > Len(routes) THEN [heap |-> h, routes |-> <<>>]
    ELSE
      LET r == routes[i]
          stop_ids == h[r].stopIds
      IN  IF ~RouteSurvives(stop_ids, keep_stop_ids, min_stops_in_area)
          THEN FilterRoutes(h, routes, i + 1, keep_stop_ids, bbox,
                            min_stops_in_area, clip_shapes, g)
          ELSE
            LET c == CopyRoute(h, r, RouteAddr(g, i))
                rr == c.addr
                h1 == Store(c.heap, rr, "stopIds", stop_ids)
                clipped == Clipped(h1[rr].shape, bbox)
                h2 == IF clip_shapes /\ h1[rr].shape # <<>>
                         /\ UseClipped(clipped)
                      THEN Store(h1, rr, "shape", clipped)
                      ELSE h1
                rest == FilterRoutes(h2, routes, i + 1, keep_stop_ids, bbox,
                                     min_stops_in_area, clip_shapes, g)
            IN  [heap |-> rest.heap, routes |-> <<rr>> \o rest.routes]

\* an exception leaves the call: no statement outside the two try blocks
\* raises on a network whose stops have ids and whose routes have stopIds
\* and shape lists, so this is the case that a coordinate conversion
\* raises past its handler
FilterRaises(h, net, bbox, min_stops_in_area, clip_shapes) ==
    \/ \E s \in Range(h[net].stops) : TryCoords(s.lat, s.lng).st = "raise"
    \/ /\ clip_shapes
       /\ \E r \in Range(h[net].routes) :
            /\ RouteSurvives(h[r].stopIds, KeepStopIds(h[net].stops, bbox),
                             min_stops_in_area)
            /\ \E pt \in Range(h[r].shape) :
                 TryCoords(pt[1], pt[2]).st = "raise"

\* filter_network_by_bbox (lines 108-173) on the network at address net:
\* the heap when it returns and the address of the network it returns
filter_network_by_bbox(h, net, bbox, min_stops_in_area, clip_shapes, g) ==
    LET filtered_stops == FilteredStops(h[net].stops, bbox)
        keep_stop_ids == KeepStopIds(h[net].stops, bbox)
        fr == FilterRoutes(h, h[net].routes, 1, keep_stop_ids, bbox,
                           min_stops_in_area, clip_shapes, g)
        c == CopyNet(fr.heap, net, NetAddr(g))
        out == c.addr
        h1 == Store(c.heap, out, "stops", filtered_stops)
        h2 == Store(h1, out, "routes", fr.routes)
        m == CopyMeta(h2, h2[out].meta, MetaAddr(g))
        h3 == Store(m.heap, out, "meta", m.addr)
        h4 == [h3 EXCEPT ![m.addr] =
                  MetaUpdate(@, FilterRecord(bbox, min_stops_in_area,
                                             clip_shapes))]
    IN  [heap |-> h4, addr |-> out]

\* ------------------------------------------------------------------------
\* Request handler: server.py get_network
\* ------------------------------------------------------------------------

\* all(v is not None for v in [minLat, minLng, maxLat, maxLng])  (line 232)
BBoxSupplied(q) == \A k \in 1..4 : q[k] # None

\* the builder called with the bbox of the request when there is one
GetNetworkBuildWithBBox(fd, bufferMeters, q) ==
    build_aston_network(fd.stops, fd.routes, fd.trips, fd.stop_times,
                        fd.shapes, bufferMeters,
                        IF \A k \in 1..4 : q[k] # None
                        THEN Some(<<q[1][1], q[2][1], q[3][1], q[4][1]>>)
                        ELSE None)

\* the call of the builder (lines 226-229): buffer_meters only, no bbox
GetNetworkBuild(fd, bufferMeters, q) ==
    build_aston_network(fd.stops, fd.routes, fd.trips, fd.stop_times,
                        fd.shapes, bufferMeters, None)

\* the built network at NetAddr(0) of h0 filtered iff the request has all
\* four bbox values (lines 231-241)
FilterIfBBox(h0, minStopsInArea, q) ==
    IF BBoxSupplied(q)
    THEN filter_network_by_bbox(h0, NetAddr(0),
                                <<q[1][1], q[2][1], q[3][1], q[4][1]>>,
                                minStopsInArea, TRUE, 1)
    ELSE [heap |-> h0, addr |-> NetAddr(0)]

\* get_network once load_gtfs has returned the tables fd (lines 226-241):
\* the heap when it returns and the address of the network it returns
get_network(fd, bufferMeters, minStopsInArea, q) ==
    FilterIfBBox(StoreNet(EmptyHeap, 0, GetNetworkBuild(fd, bufferMeters, q)),
                 minStopsInArea, q)

\* ------------------------------------------------------------------------
\* The feed on disk: parse.py read_gtfs_table, fetch.py extract_gtfs_zip.
\* A directory maps each table t to the state of its file t.txt.
\* ------------------------------------------------------------------------

\* the tables in the order load_gtfs reads them (parse.py lines 14-18)
Files == <<"stops", "routes", "trips", "stop_times", "shapes">>

\* no such file
Missing == [st |-> "missing", rows |-> <<>>]

\* a file opened for writing and not written yet: zero bytes
Truncated == [st |-> "empty", rows |-> <<>>]

\* a CSV file that holds the rows
File(rows) == [st |-> "table", rows |-> rows]

\* read_gtfs_table (parse.py lines 5-10): FileNotFoundError when the file
\* does not exist, pandas' EmptyDataError on a file without a header line,
\* else the table
read_gtfs_table(gtfs_dir, filename) ==
    IF gtfs_dir[filename].st = "missing"
    THEN [st |-> "FileNotFoundError", rows |-> <<>>]
    ELSE IF gtfs_dir[filename].st = "empty"
    THEN [st |-> "EmptyDataError", rows |-> <<>>]
    ELSE [st |-> "ok", rows |-> gtfs_dir[filename].rows]

\* ZipFile.extractall (fetch.py line 70), member k of the archive:
\* open(targetpath, "wb") creates or truncates the file ...
OpenMember(dir, zip, k) == [dir EXCEPT ![zip[k].name] = Truncated]

\* ... and copyfileobj writes it.  The tables of this model are far
\* smaller than one write buffer, so a reader finds the file either empty
\* or whole.
WriteMember(dir, zip, k) == [dir EXCEPT ![zip[k].name] = File(zip[k].rows)]

\* sorted([f for f in os.listdir(data_dir) if f.endswith(".txt")])
\* (server.py line 263)
ListTxt(dir) ==
    LET exists(f) == dir[f].st # "missing"
    IN  SelectSeq(<<"routes", "shapes", "stop_times", "stops", "trips">>,
                  exists)

\* ------------------------------------------------------------------------
\* Inputs
\* ------------------------------------------------------------------------

\* number of rows of the stops table / stops of a network passed to the
\* filter
MaxStops == 3

\* min_stops_in_area ranges over 0..MaxMinStops in direct filter calls
MaxMinStops == 3

\* default of get_network's bufferMeters
DefaultBufferServer == 900

\* default of build_aston_network's buffer_meters
DefaultBufferBuilder == 1500

\* default of minStopsInArea / min_stops_in_area
DefaultMinStops == 3

StopIds == <<"A", "B", "C", "D", "E">>

\* (minLat, minLng, maxLat, maxLng): the first has Places[1] and Places[2]
\* on its corners, the second holds Places[2] and Places[3]
Boxes == {<<52490, -1890, 52497, -1885>>, <<52495, -1886, 52505, -1879>>}

Buffers == {DefaultBufferServer, DefaultBufferBuilder}

\* the second stop has an empty stop_name cell
StopRow(k, place) ==
    [stop_id   |-> StopIds[k],
     stop_name |-> IF k = 2 THEN None ELSE Some("Stop " \o StopIds[k]),
     stop_lat  |-> place[1],
     stop_lon  |-> place[2]]

\* the stops table: the first two stops anywhere, the others at Places[3]
StopsTable(pa, pb) ==
    [k \in 1..MaxStops |->
        StopRow(k, IF k = 1 THEN Places[pa]
                   ELSE IF k = 2 THEN Places[pb] ELSE Places[3])]

\* routes.txt with the column route_color, empty for R1
RoutesWithColor ==
    <<[route_id |-> "R1", route_short_name |-> Some("1"),
       route_long_name |-> Some("One"), route_color |-> None],
      [route_id |-> "R2", route_short_name |-> Some("2"),
       route_long_name |-> None, route_color |-> Some("FF0000")],
      [route_id |-> "R3", route_short_name |-> Some("3"),
       route_long_name |-> Some("Three"), route_color |-> Some("0000FF")]>>

\* routes.txt with or without the column route_color
RoutesTable(colored) ==
    [i \in 1..Len(RoutesWithColor) |->
        [k \in DOMAIN RoutesWithColor[i]
                 \ (IF colored THEN {} ELSE {"route_color"}) |->
            RoutesWithColor[i][k]]]

\* T1 and T2 run on R1, T3 on R2; no trip runs on R3
TripsTable ==
    <<[trip_id |-> "T1", route_id |-> "R1", shape_id |-> Some("S1")],
      [trip_id |-> "T2", route_id |-> "R1", shape_id |-> None],
      [trip_id |-> "T3", route_id |-> "R2", shape_id |-> Some("S9")]>>

\* S1 in scrambled row order; no shape S9
ShapesTable ==
    <<[shape_id |-> "S1", shape_pt_sequence |-> 20,
       shape_pt_lat |-> Places[2][1], shape_pt_lon |-> Places[2][2]],
      [shape_id |-> "S2", shape_pt_sequence |-> 1,
       shape_pt_lat |-> Places[4][1], shape_pt_lon |-> Places[4][2]],
      [shape_id |-> "S1", shape_pt_sequence |-> 3,
       shape_pt_lat |-> Places[1][1], shape_pt_lon |-> Places[1][2]],
      [shape_id |-> "S1", shape_pt_sequence |-> 100,
       shape_pt_lat |-> Places[3][1], shape_pt_lon |-> Places[3][2]]>>

\* the stop_times rows of a trip, <<stop_id, stop_sequence>> in row order.
\* Stop E is in no stops table.
Itineraries ==
    {<<>>,
     <<<<"E", 1>>>>,
     <<<<"C", 1>>>>,
     <<<<"B", 2>>, <<"A", 1>>>>,
     <<<<"A", 5>>, <<"B", 7>>, <<"C", 9>>>>,
     <<<<"A", 10>>, <<"B", 2>>, <<"A", 30>>>>}

Itineraries2 == {<<>>, <<<<"C", 1>>>>, <<<<"B", 2>>, <<"A", 1>>>>}

Itineraries3 == {<<<<"E", 1>>>>, <<<<"C", 4>>, <<"B", 3>>>>}

StopTimeRows(trip_id, itin) ==
    [i \in 1..Len(itin) |->
        [trip_id |-> trip_id, stop_id |-> itin[i][1],
         stop_sequence |-> itin[i][2]]]

Feed(pa, pb, colored, i1, i2, i3) ==
    [stops      |-> StopsTable(pa, pb),
     routes     |-> RoutesTable(colored),
     trips      |-> TripsTable,
     stop_times |-> StopTimeRows("T2", i2) \o StopTimeRows("T1", i1)
                    \o StopTimeRows("T3", i3),
     shapes     |-> ShapesTable]

\* the tables passed to the builder
Feeds ==
    {Feed(pa, pb, colored, i1, i2, i3) :
        pa \in 1..Len(Places), pb \in 1..Len(Places), colored \in BOOLEAN,
        i1 \in Itineraries, i2 \in Itineraries2, i3 \in Itineraries3}

NoFeed ==
    [stops |-> <<>>, routes |-> <<>>, trips |-> <<>>, stop_times |-> <<>>,
     shapes |-> <<>>]

\* a directory without GTFS files
NoDisk == [f \in Range(Files) |-> Missing]

\* a directory that holds the five tables
Disk(fd) == [f \in Range(Files) |-> File(fd[f])]

\* the feeds found in gtfs_data when the server starts
DiskFeeds ==
    {Feed(1, 2, TRUE, <<<<"A", 5>>, <<"B", 7>>, <<"C", 9>>>>, <<>>,
          <<<<"C", 4>>, <<"B", 3>>>>),
     Feed(2, 4, FALSE, <<<<"B", 2>>, <<"A", 1>>>>, <<<<"C", 1>>>>,
          <<<<"E", 1>>>>)}

\* the feed a download brings
NewFeed ==
    Feed(3, 1, TRUE, <<<<"A", 10>>, <<"B", 2>>, <<"A", 30>>>>,
         <<<<"B", 2>>, <<"A", 1>>>>, <<<<"C", 4>>, <<"B", 3>>>>)

\* the archives a download brings, as the sequence of their members: one
\* holds the five tables, the other stops and stop_times only
Zips ==
    {[k \in 1..5 |->
         LET f == <<"routes", "shapes", "stop_times", "stops", "trips">>[k]
         IN  [name |-> f, rows |-> NewFeed[f]]],
     <<[name |-> "stop_times", rows |-> NewFeed.stop_times],
       [name |-> "stops", rows |-> NewFeed.stops]>>}

\* the query parameters minLat, minLng, maxLat, maxLng of a request: all
\* four of a box, none, or some of them
Queries ==
    {[k \in 1..4 |-> IF k \in present THEN Some(box[k]) ELSE None] :
        box \in Boxes,
        present \in {{}, {1}, {2, 4}, {1, 2, 3}, {1, 2, 3, 4}}}

NoQuery == <<None, None, None, None>>

NoCall ==
    [op |-> "none", tables |-> NoFeed, buffer_meters |-> 0, bbox |-> None,
     min_stops_in_area |-> 0, clip_shapes |-> FALSE, query |-> NoQuery,
     input |-> NetAddr(0)]

NoReturn == [status |-> "none", addr |-> NetAddr(0)]

\* no request in get_network: pc is 0; 1..5 before the read of Files[pc];
\* 6 when load_gtfs has returned; 7 when the request is answered
NoLoad == [pc |-> 0, tables |-> NoFeed]

\* no refresh_gtfs running
NoExtract ==
    [status |-> "idle", zip |-> <<>>, k |-> 0, open |-> FALSE,
     backend |-> TRUE, dir |-> NoDisk, files |-> <<>>]

\* ------------------------------------------------------------------------
\* Coordinates of the networks passed to the filter directly
\* ------------------------------------------------------------------------

Str(v) == <<"s", v>>

Malformed == <<"x", 0>>

FloatPoint(k) == <<Float(Places[k][1]), Float(Places[k][2])>>

\* a stop position or shape point as the caller wrote it
RawPoints ==
    {FloatPoint(1), FloatPoint(2), FloatPoint(3),
     <<Str(Places[1][1]), Float(Places[1][2])>>,
     <<Malformed, Float(Places[1][2])>>,
     <<Float(Places[2][1]), Malformed>>}

NetStop(k, pt) ==
    [id |-> StopIds[k], name |-> "Stop " \o StopIds[k],
     lat |-> pt[1], lng |-> pt[2]]

NetStops(ra, rb) ==
    [k \in 1..MaxStops |->
        NetStop(k, IF k = 1 THEN ra ELSE IF k = 2 THEN rb ELSE FloatPoint(2))]

StopIdLists ==
    {<<>>, <<"A">>, <<"A", "B", "A">>, <<"A", "B", "C">>, <<"E", "C">>}

ShapeLists ==
    {<<>>,
     <<FloatPoint(1)>>,
     <<FloatPoint(1), FloatPoint(2), FloatPoint(3)>>,
     <<FloatPoint(3), FloatPoint(4)>>,
     <<FloatPoint(1), <<Malformed, Float(Places[2][2])>>, FloatPoint(2)>>,
     <<<<Str(Places[1][1]), Str(Places[1][2])>>, FloatPoint(3),
       FloatPoint(2)>>}

NetRoute(id, stop_ids, shape) ==
    [id |-> id, shortName |-> id, longName |-> id, color |-> "2E7D32",
     stopIds |-> stop_ids, shape |-> shape, headwayMins |-> None]

Networks ==
    {[stops  |-> NetStops(ra, rb),
      routes |-> <<NetRoute("R1", ids, shape),
                   NetRoute("R2", <<"B", "C">>,
                            <<FloatPoint(2), FloatPoint(3), FloatPoint(1)>>)>>,
      meta   |-> [source |-> "tfwm-gtfs"]] :
        ra \in RawPoints, rb \in RawPoints,
        ids \in StopIdLists, shape \in ShapeLists}

\* ------------------------------------------------------------------------
\* Specification of the builder: one call of build_aston_network on the
\* tables of a feed.  The builder keeps no state between calls, so a
\* behaviour follows a single call.
\* ------------------------------------------------------------------------

Init ==
    /\ feed = NoDisk
    /\ heap = EmptyHeap
    /\ call = NoCall
    /\ ret = NoReturn
    /\ load = NoLoad
    /\ extract = NoExtract

BuildCall(fd, buffer_meters, bbox) ==
    /\ call.op = "none"
    /\ call' = [NoCall EXCEPT !.op = "build_aston_network",
                              !.tables = fd,
                              !.buffer_meters = buffer_meters,
                              !.bbox = bbox]
    /\ heap' = StoreNet(EmptyHeap, 0,
                        build_aston_network(fd.stops, fd.routes, fd.trips,
                                            fd.stop_times, fd.shapes,
                                            buffer_meters, bbox))
    /\ ret' = [status |-> "ok", addr |-> NetAddr(0)]
    /\ UNCHANGED <<feed, load, extract>>

Next ==
    \/ \E fd \in Feeds, b \in Buffers : BuildCall(fd, b, None)
    \/ \E fd \in Feeds, box \in Boxes :
          BuildCall(fd, DefaultBufferBuilder, Some(box))

Spec == Init /\ [][Next]_vars

\* ------------------------------------------------------------------------
\* Specification of the server: one request to /api/network and one to
\* /api/gtfs/refresh, on the gtfs_data directory of the backend.  Both
\* handlers are plain functions, which the framework runs on worker
\* threads: the five reads of load_gtfs and the writes of extractall
\* interleave.
\* ------------------------------------------------------------------------

InitServer ==
    /\ feed \in {NoDisk} \cup {Disk(fd) : fd \in DiskFeeds}
    /\ heap = EmptyHeap
    /\ call = NoCall
    /\ ret = NoReturn
    /\ load = NoLoad
    /\ extract = NoExtract

\* a request enters get_network (server.py lines 210-218)
GetNetworkCall(bufferMeters, minStopsInArea, q) ==
    /\ call.op = "none"
    /\ call' = [NoCall EXCEPT !.op = "get_network",
                              !.buffer_meters = bufferMeters,
                              !.min_stops_in_area = minStopsInArea,
                              !.query = q]
    /\ load' = [NoLoad EXCEPT !.pc = 1]
    /\ UNCHANGED <<feed, heap, ret, extract>>

\* one read_gtfs_table of load_gtfs (parse.py lines 13-19): a missing file
\* is answered 400 (server.py lines 221-224), any other exception leaves
\* the handler
LoadGtfs ==
    /\ load.pc \in 1..Len(Files)
    /\ LET f == Files[load.pc]
           r == read_gtfs_table(feed, f)
       IN  IF r.st = "FileNotFoundError"
           THEN /\ load' = [load EXCEPT !.pc = 7]
                /\ ret' = [status |-> "400", addr |-> NetAddr(0)]
           ELSE IF r.st = "EmptyDataError"
           THEN /\ load' = [load EXCEPT !.pc = 7]
                /\ ret' = [status |-> "raised", addr |-> NetAddr(0)]
           ELSE /\ load' = [pc     |-> load.pc + 1,
                            tables |-> [load.tables EXCEPT ![f] = r.rows]]
                /\ UNCHANGED ret
    /\ UNCHANGED <<feed, heap, call, extract>>

\* the rest of get_network (server.py lines 226-241)
GetNetworkReturn ==
    /\ load.pc = Len(Files) + 1
    /\ \E res \in {get_network(load.tables, call.buffer_meters,
                               call.min_stops_in_area, call.query)} :
          /\ heap' = res.heap
          /\ ret' = [status |-> "ok", addr |-> res.addr]
    /\ load' = [load EXCEPT !.pc = 7]
    /\ UNCHANGED <<feed, call, extract>>

\* a request enters refresh_gtfs (server.py lines 252-260).  has_keys:
\* TFWM_APP_ID and TFWM_APP_KEY are set; download: download_gtfs_zip
\* returns, with the archive zip in cache/ (it raises when every attempt
\* fails); backend: the working directory is backend/, so that the
\* relative path gtfs_data is the directory get_network reads -- if not, the
\* archive is extracted into a gtfs_data of the working directory, which
\* holds no GTFS file before.
RefreshGtfs(has_keys, download, zip, backend) ==
    /\ extract.status = "idle"
    /\ extract' =
         IF ~has_keys THEN [NoExtract EXCEPT !.status = "not ok"]
         ELSE IF ~download THEN [NoExtract EXCEPT !.status = "raised"]
         ELSE [NoExtract EXCEPT !.status = "extracting", !.zip = zip,
                                !.k = 1, !.backend = backend]
    /\ UNCHANGED <<feed, heap, call, ret, load>>

\* extract_gtfs_zip (fetch.py lines 65-72): one step of extractall, which
\* writes the members in the order of the archive
ExtractMember ==
    /\ extract.status = "extracting"
    /\ extract.k <= Len(extract.zip)
    /\ LET dir == IF extract.backend THEN feed ELSE extract.dir
           new == IF extract.open
                  THEN WriteMember(dir, extract.zip, extract.k)
                  ELSE OpenMember(dir, extract.zip, extract.k)
       IN  /\ feed' = IF extract.backend THEN new ELSE feed
           /\ extract' = [extract EXCEPT
                             !.dir = IF extract.backend THEN @ ELSE new,
                             !.open = ~@,
                             !.k = IF extract.open THEN @ + 1 ELSE @]
    /\ UNCHANGED <<heap, call, ret, load>>

\* refresh_gtfs lists the directory and returns (server.py lines 263-264)
RefreshReturn ==
    /\ extract.status = "extracting"
    /\ extract.k > Len(extract.zip)
    /\ extract' = [extract EXCEPT
                      !.status = "ok",
                      !.files = ListTxt(IF extract.backend THEN feed
                                        ELSE extract.dir)]
    /\ UNCHANGED <<feed, heap, call, ret, load>>

NextServer ==
    \/ \E b \in Buffers, m \in {1, DefaultMinStops}, q \in Queries :
          GetNetworkCall(b, m, q)
    \/ LoadGtfs
    \/ GetNetworkReturn
    \/ \E has_keys \in BOOLEAN, download \in BOOLEAN, zip \in Zips,
          backend \in BOOLEAN : RefreshGtfs(has_keys, download, zip, backend)
    \/ ExtractMember
    \/ RefreshReturn

SpecServer == InitServer /\ [][NextServer]_vars

\* ------------------------------------------------------------------------
\* Specification of the filter called on a network of the caller's
\* ------------------------------------------------------------------------

\* the objects of generation g and below
UpTo(h, g) == [x \in {a \in DOMAIN h : a[2] <= g} |-> h[x]]

InitFilter ==
    /\ feed = NoDisk
    /\ \E net \in Networks : heap = StoreNet(EmptyHeap, 0, net)
    /\ call = NoCall
    /\ ret = NoReturn
    /\ load = NoLoad
    /\ extract = NoExtract

\* one call of the filter on the network at address input
FilterStep(op, input, bbox, min_stops_in_area, clip_shapes, g) ==
    LET h == UpTo(heap, g - 1)
        res == filter_network_by_bbox(h, input, bbox, min_stops_in_area,
                                      clip_shapes, g)
    IN  /\ call' = [NoCall EXCEPT !.op = op,
                                  !.bbox = Some(bbox),
                                  !.min_stops_in_area = min_stops_in_area,
                                  !.clip_shapes = clip_shapes,
                                  !.input = input]
        /\ IF FilterRaises(h, input, bbox, min_stops_in_area, clip_shapes)
           THEN /\ heap' = h
                /\ ret' = [status |-> "raised", addr |-> input]
           ELSE /\ heap' = res.heap
                /\ ret' = [status |-> "ok", addr |-> res.addr]
        /\ UNCHANGED <<feed, load, extract>>

\* filter_network_by_bbox(net, bbox, min_stops_in_area, clip_shapes) on the
\* caller's network, or once more on the network the first call returned,
\* with the same bbox, min_stops_in_area and clip_shapes
FilterCall(again, bbox, min_stops_in_area, clip_shapes) ==
    /\ IF again
       THEN /\ call.op = "filter"
            /\ ret.status = "ok"
            /\ call.bbox = Some(bbox)
            /\ call.min_stops_in_area = min_stops_in_area
            /\ call.clip_shapes = clip_shapes
       ELSE call.op = "none"
    /\ FilterStep(IF again THEN "filter_again" ELSE "filter", ret.addr, bbox,
                  min_stops_in_area, clip_shapes, IF again THEN 2 ELSE 1)

NextFilter ==
    \E again \in BOOLEAN, box \in Boxes, m \in 0..MaxMinStops,
       clip \in BOOLEAN : FilterCall(again, box, m, clip)

SpecFilter == InitFilter /\ [][NextFilter]_vars

\* ------------------------------------------------------------------------
\* What the claims speak of
\* ------------------------------------------------------------------------

\* the network the last call returned
Out == Deref(heap, ret.addr)

Built == call.op = "build_aston_network" /\ ret.status = "ok"

Served == call.op = "get_network" /\ ret.status = "ok"

Filtered == call.op \in {"filter", "filter_again"}

\* the feed tables of the last call: those passed to the builder, or those
\* load_gtfs read for get_network
Tables == IF call.op = "get_network" THEN load.tables ELSE call.tables

\* no farther from the builder's centre than bufferMeters / 1000 km
WithinRadius(lat, lng) ==
    Leq(DistFromCenter(lat, lng),
        DivSmall(ShiftUp(Digits(call.buffer_meters), Scale), 1000))

\* the region test as the specification states it, on a row of the stops
\* table: inside the inclusive bbox when one is given, else within the
\* radius
SatisfiesRegion(s) ==
    IF call.bbox # None
    THEN /\ call.bbox[1][1] <= s.stop_lat /\ s.stop_lat <= call.bbox[1][3]
         /\ call.bbox[1][2] <= s.stop_lon /\ s.stop_lon <= call.bbox[1][4]
    ELSE WithinRadius(s.stop_lat, s.stop_lon)

\* ids of the near-set
NearIds ==
    {s.stop_id : s \in {x \in Range(Tables.stops) : SatisfiesRegion(x)}}

\* the stop_times rows of a trip
RowsOf(trip_id) ==
    {j \in 1..Len(Tables.stop_times) :
        Tables.stop_times[j].trip_id = trip_id}

\* the stop ids of a trip, by ascending stop_sequence
IdsInSequence(trip_id) ==
    [k \in 1..Cardinality(RowsOf(trip_id)) |->
        LET j == CHOOSE x \in RowsOf(trip_id) :
                   Cardinality({y \in RowsOf(trip_id) :
                       Tables.stop_times[y].stop_sequence
                         < Tables.stop_times[x].stop_sequence}) = k - 1
        IN  Tables.stop_times[j].stop_id]

\* rows of trips that serve a near-set stop, for one route
NearTrips(route_id) ==
    {i \in 1..Len(Tables.trips) :
        /\ Tables.trips[i].route_id = route_id
        /\ \E j \in RowsOf(Tables.trips[i].trip_id) :
              Tables.stop_times[j].stop_id \in NearIds}

Min(S) == CHOOSE x \in S : \A y \in S : x <= y

\* ------------------------------------------------------------------------
\* Claims about the builder
\* ------------------------------------------------------------------------

\* C1: every route the builder returns has a stop id of the near-set among
\* its stopIds.
C1_RoutesTouchNearSet ==
    Built => \A r \in Range(Out.routes) :
                \E k \in 1..Len(r.stopIds) : r.stopIds[k] \in NearIds

\* C2: the stops the builder returns are exactly the rows of the stops
\* table that satisfy the region test, in table order, as {id, name, lat,
\* lng}.
C2_StopsAreNearSet ==
    Built =>
      LET near == SelectSeq(Tables.stops, SatisfiesRegion)
      IN  Out.stops = [i \in 1..Len(near) |->
                          [id |-> near[i].stop_id,
                           name |-> PyStr(near[i].stop_name),
                           lat |-> Float(near[i].stop_lat),
                           lng |-> Float(near[i].stop_lon)]]

\* C2 witness: a stop is returned that no returned route references, and a
\* stop of the table is left out
C2_Witness ==
    /\ Built
    /\ Len(Out.stops) < Len(Tables.stops)
    /\ \E s \in Range(Out.stops) :
          \A r \in Range(Out.routes) : s.id \notin Range(r.stopIds)
    /\ \E s \in Range(Out.stops) :
          \E r \in Range(Out.routes) : s.id \in Range(r.stopIds)

\* C3: stopIds of a returned route is the whole stop sequence of its
\* representative trip, by ascending stop_sequence, not trimmed to the
\* near-set.
C3_StopIdsWholeTrip ==
    Built =>
      LET rep == RouteToTrip(Trips2(Tables.stops, Tables.trips,
                                    Tables.stop_times))
      IN  \A r \in Range(Out.routes) : r.stopIds = IdsInSequence(rep[r.id])

\* C3 witness: the trip visits A, B, C, only B is in the near-set, and the
\* route is returned with stopIds = <<A, B, C>>
C3_Witness ==
    /\ Built
    /\ NearIds \cap {"A", "B", "C"} = {"B"}
    /\ \E r \in Range(Out.routes) : r.stopIds = <<"A", "B", "C">>
    /\ \E j \in 2..Len(Tables.stop_times) :
          /\ Tables.stop_times[j].trip_id
               = Tables.stop_times[j - 1].trip_id
          /\ Tables.stop_times[j].stop_sequence
               < Tables.stop_times[j - 1].stop_sequence

\* C9: the candidate trips are the trips with a stop_times row at a
\* near-set stop; a route is returned iff it has a candidate trip, and with
\* the stop sequence of its first candidate trip in the order of trips.
C9_RepresentativeServesNearSet ==
    Built =>
      /\ \A r \in Range(Out.routes) :
            /\ NearTrips(r.id) # {}
            /\ r.stopIds
                 = IdsInSequence(Tables.trips[Min(NearTrips(r.id))].trip_id)
      /\ \A x \in Range(Tables.routes) :
            NearTrips(x.route_id) # {}
              => \E r \in Range(Out.routes) : r.id = x.route_id

\* ------------------------------------------------------------------------
\* Claims about the filter
\* ------------------------------------------------------------------------

\* the network the filter was called on
In == Deref(heap, call.input)

TheBox == call.bbox[1]

Numeric(v) == v[1] # "x"

PointInBox(lat, lng) ==
    /\ Numeric(lat) /\ Numeric(lng)
    /\ TheBox[1] <= lat[2] /\ lat[2] <= TheBox[3]
    /\ TheBox[2] <= lng[2] /\ lng[2] <= TheBox[4]

\* the route of the output that was made from route r of the input
OutRoutesOf(r) == {o \in Range(Out.routes) : o.id = r.id}

\* the stops kept in the output whose id occurs in stop_ids
RetainedStops(stop_ids) ==
    {i \in 1..Len(Out.stops) : Out.stops[i].id \in Range(stop_ids)}

\* the entries of stop_ids that are ids of stops kept in the output
RetainedEntries(stop_ids) ==
    {k \in 1..Len(stop_ids) :
        stop_ids[k] \in {s.id : s \in Range(Out.stops)}}

\* C4 as stated: a route is kept iff at least minStopsInArea of the stops
\* kept in the output have their id in its stopIds.
C4_KeptByRetainedStops ==
    Filtered /\ ret.status = "ok" =>
      \A r \in Range(In.routes) :
         (OutRoutesOf(r) # {})
           <=> Cardinality(RetainedStops(r.stopIds)) >= call.min_stops_in_area

\* C4 as amended: a route is kept iff at least minStopsInArea entries of
\* its stopIds, repetitions counted, are ids of stops kept in the output.
C4_KeptByRetainedEntries ==
    Filtered /\ ret.status = "ok" =>
      \A r \in Range(In.routes) :
         (OutRoutesOf(r) # {})
           <=> Cardinality(RetainedEntries(r.stopIds))
                 >= call.min_stops_in_area

\* C4 witness: a route is kept with exactly minStopsInArea = 3 entries in
\* the box, and another is dropped with 2
C4_Witness ==
    /\ Filtered /\ ret.status = "ok"
    /\ call.min_stops_in_area = 3
    /\ \E r \in Range(In.routes) :
          /\ OutRoutesOf(r) # {}
          /\ Cardinality(RetainedEntries(r.stopIds)) = 3
    /\ \E r \in Range(In.routes) :
          /\ OutRoutesOf(r) = {}
          /\ Cardinality(RetainedEntries(r.stopIds)) = 2

\* C5: filtering the filter's result again with the same bbox,
\* minStopsInArea and clipShapes returns an equal network, meta included.
C5_Idempotent ==
    call.op = "filter_again" /\ ret.status = "ok" => Out = In

\* C5 witness: the first call dropped a stop and a route and clipped a
\* shape, and the filter has run again on its result
C5_Witness ==
    /\ call.op = "filter_again" /\ ret.status = "ok"
    /\ LET first == Deref(heap, NetAddr(0))
       IN  /\ Len(In.stops) < Len(first.stops)
           /\ Len(In.routes) < Len(first.routes)
           /\ \E r \in Range(In.routes) :
                 \A x \in Range(first.routes) : x.shape # r.shape
    /\ "filter" \in DOMAIN In.meta

\* the in-box points of a shape, in order, as floats
InBoxPoints(shape) ==
    LET inBox(pt) == PointInBox(pt[1], pt[2])
        sel == SelectSeq(shape, inBox)
    IN  [i \in 1..Len(sel) |-> <<Float(sel[i][1][2]), Float(sel[i][2][2])>>]

\* C6: the shape of a kept route is the in-box points of its shape when
\* clipShapes is set, the shape is not empty and at least 2 points are in
\* the box; otherwise it is the shape as it was.
C6_ShapeClipping ==
    Filtered /\ ret.status = "ok" =>
      \A r \in Range(In.routes) : \A o \in OutRoutesOf(r) :
         /\ o.shape = IF call.clip_shapes /\ r.shape # <<>>
                         /\ Len(InBoxPoints(r.shape)) >= 2
                      THEN InBoxPoints(r.shape)
                      ELSE r.shape
         /\ Len(o.shape) <= Len(r.shape)
         /\ Len(r.shape) >= 2 => Len(o.shape) >= 2

\* C6 witness: one kept route has its shape cut down to the points in the
\* box, another has a shape wholly outside the box and keeps it
C6_Witness ==
    /\ call.op = "filter" /\ ret.status = "ok" /\ call.clip_shapes
    /\ \E r \in Range(In.routes) : \E o \in OutRoutesOf(r) :
          /\ Len(o.shape) < Len(r.shape)
          /\ Len(o.shape) >= 2
    /\ \E r \in Range(In.routes) : \E o \in OutRoutesOf(r) :
          /\ r.shape # <<>>
          /\ InBoxPoints(r.shape) = <<>>
          /\ o.shape = r.shape

NumericPoint(pt) == Numeric(pt[1]) /\ Numeric(pt[2])

NumericStop(s) == Numeric(s.lat) /\ Numeric(s.lng)

WithoutMalformedPoints(route) ==
    [route EXCEPT !.shape = SelectSeq(@, NumericPoint)]

\* a network without its malformed stops and shape points
WithoutMalformed(net) ==
    [stops  |-> SelectSeq(net.stops, NumericStop),
     routes |-> [i \in 1..Len(net.routes) |->
                    WithoutMalformedPoints(net.routes[i])],
     meta   |-> net.meta]

\* the network the filter returns for a network given as a value
FilterOf(net) ==
    LET res == filter_network_by_bbox(StoreNet(EmptyHeap, 0, net), NetAddr(0),
                                      TheBox, call.min_stops_in_area,
                                      call.clip_shapes, 1)
    IN  Deref(res.heap, res.addr)

\* C7: the filter returns whatever coordinates are malformed, and what it
\* returns is what it returns for the network without the malformed stops
\* and shape points (a shape kept unclipped still holds its malformed
\* points).
C7_MalformedSkipped ==
    Filtered =>
      /\ ret.status = "ok"
      /\ LET clean == FilterOf(WithoutMalformed(In))
         IN  /\ Out.stops = clean.stops
             /\ Out.meta = clean.meta
             /\ Len(Out.routes) = Len(clean.routes)
             /\ \A i \in 1..Len(Out.routes) :
                   WithoutMalformedPoints(Out.routes[i]) = clean.routes[i]

\* C7 witness: the network has a malformed stop that a kept route refers
\* to, and a kept route's shape has a malformed point and is clipped
C7_Witness ==
    /\ call.op = "filter" /\ ret.status = "ok" /\ call.clip_shapes
    /\ \E s \in Range(In.stops) :
          /\ ~NumericStop(s)
          /\ \E o \in Range(Out.routes) : s.id \in Range(o.stopIds)
    /\ \E r \in Range(In.routes) : \E o \in OutRoutesOf(r) :
          /\ \E pt \in Range(r.shape) : ~NumericPoint(pt)
          /\ o.shape # r.shape

\* C8: a call of the filter leaves every object of the network it is given
\* as it was: the network dict, its meta and its routes.
C8_InputUnchanged ==
    [][call'.op \in {"filter", "filter_again"} =>
         \A a \in Objects(heap, call'.input) :
            a \in DOMAIN heap' /\ heap'[a] = heap[a]]_vars

\* C8 witness: the filter has returned a network with a route dropped, a
\* stop dropped and a shape clipped
C8_Witness ==
    /\ call.op = "filter" /\ ret.status = "ok"
    /\ ret.addr # call.input
    /\ Len(Out.routes) < Len(In.routes)
    /\ Len(Out.stops) < Len(In.stops)
    /\ \E r \in Range(In.routes) : \E o \in OutRoutesOf(r) : o.shape # r.shape
    /\ "filter" \in DOMAIN Out.meta
    /\ "filter" \notin DOMAIN In.meta

\* ------------------------------------------------------------------------
\* Claim about the request handler
\* ------------------------------------------------------------------------

AllFour == \A k \in 1..4 : call.query[k] # None

\* C10: get_network builds with the circular region only; with all four
\* of minLat, minLng, maxLat, maxLng every stop of the response is within
\* bufferMeters of the builder's centre and inside the box, and the
\* response records the filter; with fewer, the response is the builder's
\* network for bufferMeters, without meta.filter.
C10_BBoxOnlyWhenComplete ==
    Served =>
      LET built == build_aston_network(Tables.stops, Tables.routes,
                                       Tables.trips, Tables.stop_times,
                                       Tables.shapes,
                                       call.buffer_meters, None)
      IN  /\ Deref(heap, NetAddr(0)) = built
          /\ IF AllFour
             THEN /\ "filter" \in DOMAIN Out.meta
                  /\ \A s \in Range(Out.stops) :
                        /\ WithinRadius(s.lat[2], s.lng[2])
                        /\ call.query[1][1] <= s.lat[2]
                        /\ s.lat[2] <= call.query[3][1]
                        /\ call.query[2][1] <= s.lng[2]
                        /\ s.lng[2] <= call.query[4][1]
             ELSE /\ Out = built
                  /\ "filter" \notin DOMAIN Out.meta

\* C10 witness: a request with all four bounds whose box holds a stop
\* outside the buffer, answered with the stops inside both
C10_Witness ==
    /\ Served /\ AllFour
    /\ Out.stops # <<>>
    /\ Len(Out.stops) < Len(Deref(heap, NetAddr(0)).stops)
    /\ \E s \in Range(Tables.stops) :
          /\ call.query[1][1] <= s.stop_lat /\ s.stop_lat <= call.query[3][1]
          /\ call.query[2][1] <= s.stop_lon /\ s.stop_lon <= call.query[4][1]
          /\ s.stop_id \notin {o.id : o \in Range(Out.stops)}

\* C10 witness of the other case: one to three bounds, ignored
C10_WitnessPartial ==
    /\ Served /\ ~AllFour
    /\ \E k \in 1..4 : call.query[k] # None
    /\ Out.stops # <<>>

====
